---- MODULE Spec2Model ----
(***************************************************************************)
(* The "higher or lower" valuation game: the three variants of the page    *)
(* component StartupValuationGame, the data source they load from and the  *)
(* round state machine they drive.                                         *)
(*                                                                         *)
(*   "raw"  src/unnamed/part_002 lines 1-387   two slots, raw comparison   *)
(*   "mem"  src/unnamed/part_004               four slots, pool in memory  *)
(*          (src/unnamed/part_002 lines 389-857 is the same logic)         *)
(*   "rnd"  src/unnamed/part_003               four slots, one remote      *)
(*                                             request per selection       *)
(*                                                                         *)
(* Valuations are held in units of 100,000 dollars, so that every value    *)
(* of the program fits TLC's 32-bit integers: one million is 10 units      *)
(* and one billion is 10000 units.                                         *)
(***************************************************************************)
EXTENDS Integers, Sequences, FiniteSets, TLC

\* ------------------------------------------------------------------ bounds
\* Math.random() is drawn from { k / RandomSteps : k \in 0 .. RandomSteps-1 }.
RandomSteps == 1
\* The remote table holds at most MaxRows rows.
MaxRows == 4
\* Guesses are offered while score < MaxScore.
MaxScore == 2
\* The raw page has few states: it is explored with a finer Math.random()
\* and with longer games, so that its pool runs out during a game.
RawRandomSteps == 2
RawMaxScore == 4
\* Play Again is pressed at most MaxRestarts times.
MaxRestarts == 2
\* A guess is made while fewer than MaxTasks calls of handleGuess are
\* still awaiting or have a timer armed.
MaxTasks == 2

\* ------------------------------------------------------------------- state
VARIABLES
  variant,               \* which page component is mounted
  envUrl,                \* NEXT_PUBLIC_SUPABASE_URL is set
  envKey,                \* NEXT_PUBLIC_SUPABASE_ANON_KEY is set
  createClientThrows,    \* createClient throws for the values that are set
  imagePath,             \* the image reference handed to getSupabaseImageUrl
  imageUrl,              \* what getSupabaseImageUrl returned for it
  fetchpc,               \* fetchStartups / fetchTotalStartupsCount: "idle", "pending", "done"
  startups,              \* raw, mem: the candidate pool
  totalStartupsCount,    \* rnd
  loading,
  usingFallbackData,
  leftStartup,
  rightStartup,
  prefetchedNext,
  prefetchedSecondNext,
  usedStartupIds,        \* insertion-ordered Set (usedStartups in the raw page)
  score,
  gameOver,
  showRightValuation,
  isAnimating,
  lastGuess,
  initsInFlight,         \* calls of initializeGame that are awaiting
  tasks,                 \* calls of handleGuess that are awaiting, oldest first
  timers,                \* armed setTimeout callbacks, in firing order
  restarts,              \* number of times Play Again was pressed
  preloadOutcome,        \* history: how the last awaited preloadImage settled
  recycled               \* history: a selection in play came from the exhausted search

config == <<variant, envUrl, envKey, createClientThrows, imagePath, imageUrl>>
env == <<variant, envUrl, envKey, createClientThrows, imagePath, imageUrl,
         preloadOutcome>>
data == <<fetchpc, startups, totalStartupsCount, loading, usingFallbackData>>
slots == <<leftStartup, rightStartup, prefetchedNext, prefetchedSecondNext>>
round == <<leftStartup, rightStartup, prefetchedNext, prefetchedSecondNext,
           usedStartupIds, score, gameOver, showRightValuation, isAnimating,
           lastGuess>>
async == <<initsInFlight, tasks, timers>>
vars == <<variant, envUrl, envKey, createClientThrows, imagePath, imageUrl,
          fetchpc, startups, totalStartupsCount, loading, usingFallbackData, leftStartup,
          rightStartup, prefetchedNext, prefetchedSecondNext, usedStartupIds,
          score, gameOver, showRightValuation, isAnimating, lastGuess,
          initsInFlight, tasks, timers, restarts, preloadOutcome, recycled>>

\* --------------------------------------------------------------- constants
Million == 10
Billion == 10000
MAX_ATTEMPTS == 20

Variants == {"raw", "mem", "rnd"}
Guesses == {"higher", "lower"}

\* null for a Startup slot
NoStartup == [id |-> -1, valuation |-> -1]
\* the literal returned by getRandomStartup when it has nothing to pick from
ErrorStartup == [id |-> 0, valuation |-> Million]

\* faulty variant: Stripe's record carries ByteDance's valuation
fallbackStartupsWithTie ==
  << [id |-> 1,  valuation |-> 1800000],
     [id |-> 2,  valuation |-> 1400000],
     [id |-> 3,  valuation |-> 1400000],
     [id |-> 4,  valuation |-> 460000],
     [id |-> 5,  valuation |-> 400000],
     [id |-> 6,  valuation |-> 380000],
     [id |-> 7,  valuation |-> 150000],
     [id |-> 8,  valuation |-> 100000],
     [id |-> 9,  valuation |-> 200000],
     [id |-> 10, valuation |-> 330000] >>

fallbackStartups ==
  << [id |-> 1,  valuation |-> 1800000],
     [id |-> 2,  valuation |-> 1400000],
     [id |-> 3,  valuation |-> 950000],
     [id |-> 4,  valuation |-> 460000],
     [id |-> 5,  valuation |-> 400000],
     [id |-> 6,  valuation |-> 380000],
     [id |-> 7,  valuation |-> 150000],
     [id |-> 8,  valuation |-> 100000],
     [id |-> 9,  valuation |-> 200000],
     [id |-> 10, valuation |-> 330000] >>

\* The rows of the remote table "startups", in name order: row i has id i.
\* Rows 1 and 2 fall in the same display bucket, rows 2 and 3 have the same
\* valuation, row 4 is just below one billion and row 5 just above it.
RemoteValuation(i) ==
  CASE i = 1 -> 104000
    [] i = 2 -> 104900
    [] i = 3 -> 104900
    [] i = 4 -> 9996
    [] i = 5 -> 12000
    [] OTHER -> 20000 * i

RemoteRow(i) == [id |-> i, valuation |-> RemoteValuation(i)]

RemoteRows(n) == [i \in 1..n |-> RemoteRow(i)]

\* ----------------------------------------------------------------- helpers
Range(s) == {s[i] : i \in 1..Len(s)}

Ids(s) == {s[i].id : i \in 1..Len(s)}

\* new Set([...prev, x]) on an insertion-ordered Set
SetAdd(s, x) == IF x \in Range(s) THEN s ELSE Append(s, x)

\* Set.prototype.delete
SetDelete(s, x) == SelectSeq(s, LAMBDA y : y # x)

\* the bounds of the page that is mounted
Steps == IF variant = "raw" THEN RawRandomSteps ELSE RandomSteps
ScoreCap == IF variant = "raw" THEN RawMaxScore ELSE MaxScore

Draws == 0 .. (Steps - 1)

\* Math.floor(Math.random() * len) for the draw k / Steps, 1-based
RandomIndex(len, k) == ((k * len) \div Steps) + 1

\* Math.round(v / unit) for v >= 0
RoundDiv(v, unit) == ((2 * v) + unit) \div (2 * unit)

getRoundedValuationNumber(valuation) ==
  IF valuation >= Billion THEN RoundDiv(valuation, Billion)
  ELSE RoundDiv(valuation, Million)

\* faulty variant: equal valuations count as correct
IsCorrectRawOrEqual(guess, left, right) ==
  \/ guess = "higher" /\ right.valuation >= left.valuation
  \/ guess = "lower" /\ right.valuation <= left.valuation

IsCorrectRaw(guess, left, right) ==
  \/ guess = "higher" /\ right.valuation > left.valuation
  \/ guess = "lower" /\ right.valuation < left.valuation

\* faulty variant: equal display numbers do not count as correct
IsCorrectRoundedStrict(guess, left, right) ==
  LET leftValuationRounded == getRoundedValuationNumber(left.valuation)
      rightValuationRounded == getRoundedValuationNumber(right.valuation)
  IN \/ guess = "higher" /\ rightValuationRounded > leftValuationRounded
     \/ guess = "lower" /\ rightValuationRounded < leftValuationRounded

IsCorrectRounded(guess, left, right) ==
  LET leftValuationRounded == getRoundedValuationNumber(left.valuation)
      rightValuationRounded == getRoundedValuationNumber(right.valuation)
  IN \/ rightValuationRounded = leftValuationRounded
     \/ guess = "higher" /\ rightValuationRounded > leftValuationRounded
     \/ guess = "lower" /\ rightValuationRounded < leftValuationRounded

\* faulty variant: when every row is excluded, any row of the pool is picked
GetRandomStartupRawWholePool(pool, exclude, k) ==
  LET available == SelectSeq(pool, LAMBDA s : s.id \notin Range(exclude))
  IN IF Len(available) = 0
     THEN IF Len(pool) = 0 THEN NoStartup
          ELSE pool[RandomIndex(Len(pool), k)]
     ELSE available[RandomIndex(Len(available), k)]

\* raw page: exclude is the insertion-ordered Set usedStartups
GetRandomStartupRaw(pool, exclude, k) ==
  LET available == SelectSeq(pool, LAMBDA s : s.id \notin Range(exclude))
  IN IF Len(available) = 0
     THEN LET resetExclude == IF Len(exclude) = 0 THEN {} ELSE {exclude[1]}
              rest == SelectSeq(pool, LAMBDA s : s.id \notin resetExclude)
          IN IF Len(rest) = 0 THEN NoStartup ELSE rest[1]
     ELSE available[RandomIndex(Len(available), k)]

\* faulty variant: the exclusion set is ignored
GetRandomStartupMemNoExclude(pool, excludeIds, k) ==
  IF Len(pool) = 0 THEN ErrorStartup
  ELSE pool[RandomIndex(Len(pool), k)]

\* in-memory prefetch page
GetRandomStartupMem(pool, excludeIds, k) ==
  LET available == SelectSeq(pool, LAMBDA s : s.id \notin Range(excludeIds))
  IN IF Len(available) > 0
     THEN available[RandomIndex(Len(available), k)]
     ELSE IF Len(pool) = 0 THEN ErrorStartup
          ELSE pool[RandomIndex(Len(pool), k)]

\* ----------------------------------------------------------------- strings
\* A string is the sequence of its characters.
HttpPrefix == <<"h", "t", "t", "p">>

\* "https://placehold.co/300x200/cccccc/000000?text=No+Image"
PlaceholderUrl ==
  <<"h", "t", "t", "p", "s", ":", "/", "/", "p", "l", "a", "c", "e", "h",
    "o", "l", "d", ".", "c", "o", "/", "3", "0", "0", "x", "2", "0", "0",
    "/", "c", "c", "c", "c", "c", "c", "/", "0", "0", "0", "0", "0", "0",
    "?", "t", "e", "x", "t", "=", "N", "o", "+", "I", "m", "a", "g", "e">>

\* the value null of an image reference (not a string)
NullPath == <<"null">>
\* imageUrl before getSupabaseImageUrl was called
NotCalled == <<"not called">>
\* the call ended by throwing
Thrown == <<"throw">>

\* String.prototype.startsWith
startsWith(s, prefix) ==
  /\ Len(s) >= Len(prefix)
  /\ SubSeq(s, 1, Len(prefix)) = prefix

\* client.storage.from("startup-images").getPublicUrl(path).data.publicUrl:
\* the public base URL of the bucket followed by the path
StorageBaseUrl ==
  <<"h", "t", "t", "p", "s", ":", "/", "/", "p", "/", "s", "t", "a", "r",
    "t", "u", "p", "-", "i", "m", "a", "g", "e", "s", "/">>
getPublicUrl(path) == StorageBaseUrl \o path

\* image references the rows can hold: a head followed by a tail
PathHeads ==
  { <<>>, HttpPrefix, HttpPrefix \o <<"s">>, <<"h", "t", "t">>,
    <<"f", "t", "p">>, <<"a">> }
PathTails ==
  { <<>>, <<":", "/", "/", "a">>, <<"a", ".", "p", "n", "g">>, <<"/", "a">> }
ImagePaths == {NullPath} \cup {h \o t : h \in PathHeads, t \in PathTails}

\* faulty variant: only the URL is looked at
tryGetSupabaseUrlOnly == envUrl

\* faulty variant: createClient is called outside the try block
tryGetSupabaseResultNoCatch ==
  IF ~envUrl \/ ~envKey
  THEN [client |-> "null", error |-> "message", threw |-> FALSE]
  ELSE IF createClientThrows
       THEN [client |-> "null", error |-> "null", threw |-> TRUE]
       ELSE [client |-> "client", error |-> "null", threw |-> FALSE]

\* what tryGetSupabase returns: the client or null ("null"), the error
\* message or null, and whether the call ended by throwing
tryGetSupabaseResult ==
  IF ~envUrl \/ ~envKey
  THEN [client |-> "null", error |-> "message", threw |-> FALSE]
  ELSE IF createClientThrows
       THEN [client |-> "null", error |-> "message", threw |-> FALSE]
       ELSE [client |-> "client", error |-> "null", threw |-> FALSE]

\* the test the callers make on the result: !(!client || clientError)
tryGetSupabase ==
  /\ tryGetSupabaseResult.client # "null"
  /\ tryGetSupabaseResult.error = "null"

\* getSupabaseImageUrl
getSupabaseImageUrl(path) ==
  IF path = NullPath \/ path = <<>>
  THEN PlaceholderUrl
  ELSE IF startsWith(path, HttpPrefix)
       THEN path
       ELSE IF tryGetSupabaseResult.threw
            THEN Thrown
            ELSE IF tryGetSupabaseResult.client = "null"
                 THEN PlaceholderUrl
                 ELSE getPublicUrl(path)

Init ==
  /\ variant \in Variants
  /\ envUrl \in BOOLEAN
  /\ envKey \in BOOLEAN
  /\ createClientThrows \in IF envUrl /\ envKey THEN BOOLEAN ELSE {FALSE}
  /\ imagePath = NullPath
  /\ imageUrl = NotCalled
  /\ fetchpc = "idle"
  /\ startups = <<>>
  /\ totalStartupsCount = 0
  /\ loading = TRUE
  /\ usingFallbackData = FALSE
  /\ leftStartup = NoStartup
  /\ rightStartup = NoStartup
  /\ prefetchedNext = NoStartup
  /\ prefetchedSecondNext = NoStartup
  /\ usedStartupIds = <<>>
  /\ score = 0
  /\ gameOver = FALSE
  /\ showRightValuation = FALSE
  /\ isAnimating = FALSE
  /\ lastGuess = "null"
  /\ initsInFlight = 0
  /\ tasks = <<>>
  /\ timers = <<>>
  /\ restarts = 0
  /\ preloadOutcome = "none"
  /\ recycled = FALSE

\* faulty variant: the score survives the commit
CommitRoundKeepsScore(first, second, third, fourth, used) ==
  /\ leftStartup' = first
  /\ rightStartup' = second
  /\ prefetchedNext' = third
  /\ prefetchedSecondNext' = fourth
  /\ usedStartupIds' = used
  /\ score' = score
  /\ gameOver' = FALSE
  /\ showRightValuation' = FALSE
  /\ isAnimating' = FALSE
  /\ lastGuess' = "null"

\* the state updates shared by every commit of initializeGame
CommitRound(first, second, third, fourth, used) ==
  /\ leftStartup' = first
  /\ rightStartup' = second
  /\ prefetchedNext' = third
  /\ prefetchedSecondNext' = fourth
  /\ usedStartupIds' = used
  /\ score' = 0
  /\ gameOver' = FALSE
  /\ showRightValuation' = FALSE
  /\ isAnimating' = FALSE
  /\ lastGuess' = "null"

\* faulty variant: a rejected preload leaves the round as it was
CommitRoundCatchNothing(first, second, third, fourth, used) ==
  UNCHANGED round

\* the state updates of the catch branch of initializeGame (in-memory page)
CommitRoundCatch(first, second, third, fourth, used) ==
  /\ leftStartup' = first
  /\ rightStartup' = second
  /\ prefetchedNext' = third
  /\ prefetchedSecondNext' = fourth
  /\ usedStartupIds' = used
  /\ score' = 0
  /\ gameOver' = FALSE
  /\ showRightValuation' = FALSE
  /\ isAnimating' = FALSE
  /\ lastGuess' = "null"

\* what a call of handleGuess captures from the render it was made in
Closure(kind, guess, used, cand) ==
  [kind |-> kind, guess |-> guess, left |-> leftStartup,
   right |-> rightStartup, next |-> prefetchedNext,
   second |-> prefetchedSecondNext, score |-> score, used |-> used,
   cand |-> cand]

\* faulty variant: the buttons stay enabled while the valuation is revealed
CanGuessWhileRevealed ==
  /\ ~loading
  /\ ~gameOver
  /\ score < ScoreCap
  /\ Len(tasks) + Len(timers) < MaxTasks

\* the guess buttons are rendered and enabled
CanGuess ==
  /\ ~loading
  /\ ~gameOver
  /\ ~showRightValuation
  /\ score < ScoreCap
  /\ Len(tasks) + Len(timers) < MaxTasks

\* ------------------------------------------------- raw page (part_002:1-387)
\* faulty variant: the ids of the previous game stay excluded
InitializeGameRawKeepsExclusion(pool) ==
  IF Len(pool) < 2
  THEN UNCHANGED round
  ELSE \E k1 \in Draws, k2 \in Draws :
         LET first == GetRandomStartupRaw(pool, usedStartupIds, k1)
             second == GetRandomStartupRaw(pool,
                         SetAdd(usedStartupIds, first.id), k2)
         IN CommitRound(first, second, NoStartup, NoStartup,
                        <<first.id, second.id>>)

InitializeGameRaw(pool) ==
  IF Len(pool) < 2
  THEN UNCHANGED round
  ELSE \E k1 \in Draws, k2 \in Draws :
         LET first == GetRandomStartupRaw(pool, <<>>, k1)
             second == GetRandomStartupRaw(pool, <<first.id>>, k2)
         IN CommitRound(first, second, NoStartup, NoStartup,
                        <<first.id, second.id>>)

\* fetchStartups up to its first await, with the effect on [startups]
FetchStartupsRaw ==
  /\ variant = "raw"
  /\ fetchpc = "idle"
  /\ IF ~tryGetSupabase
     THEN /\ startups' = fallbackStartups
          /\ usingFallbackData' = TRUE
          /\ loading' = FALSE
          /\ fetchpc' = "done"
          /\ InitializeGameRaw(fallbackStartups)
     ELSE /\ fetchpc' = "pending"
          /\ usingFallbackData' = FALSE
          /\ loading' = TRUE
          /\ UNCHANGED <<startups, round>>
  /\ UNCHANGED <<env, totalStartupsCount, async, restarts, recycled>>

\* the select resolves: failed is an error result or a thrown exception,
\* nRows the number of rows of the table otherwise
FetchSettleRaw(failed, nRows) ==
  /\ variant = "raw"
  /\ fetchpc = "pending"
  /\ fetchpc' = "done"
  /\ loading' = FALSE
  /\ IF failed \/ nRows = 0
     THEN /\ startups' = fallbackStartups
          /\ usingFallbackData' = TRUE
     ELSE /\ startups' = RemoteRows(nRows)
          /\ UNCHANGED usingFallbackData
  /\ InitializeGameRaw(startups')
  /\ UNCHANGED <<env, totalStartupsCount, async, restarts, recycled>>

HandleGuessRaw(guess) ==
  /\ variant = "raw"
  /\ CanGuess
  /\ leftStartup # NoStartup /\ rightStartup # NoStartup /\ ~isAnimating
  /\ lastGuess' = guess
  /\ showRightValuation' = TRUE
  /\ IF IsCorrectRaw(guess, leftStartup, rightStartup)
     THEN /\ score' = score + 1
          /\ isAnimating' = TRUE
          /\ timers' = Append(timers,
               Closure("shift", guess, usedStartupIds, NoStartup))
     ELSE /\ timers' = Append(timers,
               Closure("over", guess, usedStartupIds, NoStartup))
          /\ UNCHANGED <<score, isAnimating>>
  /\ UNCHANGED <<env, data, slots, usedStartupIds, gameOver, initsInFlight,
                 tasks, restarts, recycled>>

\* the 1500 ms callback of a correct guess
TimerShiftRaw ==
  /\ variant = "raw"
  /\ timers # <<>>
  /\ Head(timers).kind = "shift"
  /\ \E k \in Draws :
       LET t == Head(timers)
           newStartup == GetRandomStartupRaw(startups, t.used, k)
       IN /\ leftStartup' = t.right
          /\ rightStartup' = newStartup
          /\ usedStartupIds' = SetAdd(usedStartupIds, newStartup.id)
  /\ showRightValuation' = FALSE
  /\ isAnimating' = FALSE
  /\ lastGuess' = "null"
  /\ timers' = Tail(timers)
  /\ UNCHANGED <<env, data, prefetchedNext, prefetchedSecondNext, score,
                 gameOver, initsInFlight, tasks, restarts, recycled>>

\* the 1500 ms callback of an incorrect guess (all pages)
TimerGameOver ==
  /\ timers # <<>>
  /\ Head(timers).kind = "over"
  /\ gameOver' = TRUE
  /\ timers' = Tail(timers)
  /\ UNCHANGED <<env, data, slots, usedStartupIds, score, showRightValuation,
                 isAnimating, lastGuess, initsInFlight, tasks, restarts, recycled>>

\* the Play Again button is rendered
CanPlayAgain ==
  /\ ~loading
  /\ gameOver
  /\ restarts < MaxRestarts

PlayAgainRaw ==
  /\ variant = "raw"
  /\ CanPlayAgain
  /\ leftStartup # NoStartup /\ rightStartup # NoStartup
  /\ InitializeGameRaw(startups)
  /\ restarts' = restarts + 1
  /\ UNCHANGED <<env, data, async, recycled>>

\* ------------------------------------------- in-memory prefetch page (part_004)
\* initializeGame up to its await.  The four picks read only startups, which
\* never changes once loaded, so they are drawn when the call resumes
\* (InitializeCommitMem); until then the call is one more awaiting call.
InitializeInvokeMem(pool) ==
  IF Len(pool) < 2
  THEN UNCHANGED initsInFlight
  ELSE initsInFlight' = initsInFlight + 1

\* the effect on [startups, leftStartup]
EffectMem(pool) ==
  IF Len(pool) >= 4 /\ leftStartup = NoStartup
  THEN InitializeInvokeMem(pool)
  ELSE UNCHANGED initsInFlight

FetchStartupsMem ==
  /\ variant = "mem"
  /\ fetchpc = "idle"
  /\ IF ~tryGetSupabase
     THEN /\ startups' = fallbackStartups
          /\ usingFallbackData' = TRUE
          /\ loading' = FALSE
          /\ fetchpc' = "done"
          /\ EffectMem(fallbackStartups)
     ELSE /\ fetchpc' = "pending"
          /\ usingFallbackData' = FALSE
          /\ loading' = TRUE
          /\ UNCHANGED <<startups, initsInFlight>>
  /\ UNCHANGED <<env, totalStartupsCount, round, tasks, timers, restarts, recycled>>

\* the select resolves; the catch branch leaves usingFallbackData alone
FetchSettleMem(failed, nRows) ==
  /\ variant = "mem"
  /\ fetchpc = "pending"
  /\ fetchpc' = "done"
  /\ loading' = FALSE
  /\ IF failed
     THEN /\ startups' = fallbackStartups
          /\ UNCHANGED usingFallbackData
     ELSE IF nRows = 0
          THEN /\ startups' = fallbackStartups
               /\ usingFallbackData' = TRUE
          ELSE /\ startups' = RemoteRows(nRows)
               /\ UNCHANGED usingFallbackData
  /\ EffectMem(startups')
  /\ UNCHANGED <<env, totalStartupsCount, round, tasks, timers, restarts, recycled>>

\* Promise.all of the four preloads settles: resolved, the try block goes
\* on; rejected, the catch block runs
InitializeCommitMem ==
  /\ variant = "mem"
  /\ initsInFlight > 0
  /\ initsInFlight' = initsInFlight - 1
  /\ \E rejected \in BOOLEAN,
        k1 \in Draws, k2 \in Draws, k3 \in Draws, k4 \in Draws :
       LET first == GetRandomStartupMem(startups, <<>>, k1)
           used1 == SetAdd(<<>>, first.id)
           second == GetRandomStartupMem(startups, used1, k2)
           used2 == SetAdd(used1, second.id)
           third == GetRandomStartupMem(startups, used2, k3)
           used3 == SetAdd(used2, third.id)
           fourth == GetRandomStartupMem(startups, used3, k4)
           currentUsedIds == SetAdd(used3, fourth.id)
       IN IF rejected
          THEN /\ preloadOutcome' = "init rejected"
               /\ CommitRoundCatch(first, second, third, fourth,
                                   currentUsedIds)
          ELSE /\ preloadOutcome' = "resolved"
               /\ CommitRound(first, second, third, fourth, currentUsedIds)
  /\ UNCHANGED <<config, data, tasks, timers, restarts, recycled>>

\* faulty variant: the id of the left item stays in the exclusion set
HandleGuessMemKeepsLeftId(guess) ==
  /\ variant = "mem"
  /\ CanGuess
  /\ leftStartup # NoStartup /\ rightStartup # NoStartup
  /\ prefetchedNext # NoStartup /\ prefetchedSecondNext # NoStartup
  /\ ~isAnimating
  /\ lastGuess' = guess
  /\ showRightValuation' = TRUE
  /\ IF IsCorrectRounded(guess, leftStartup, rightStartup)
     THEN /\ score' = score + 1
          /\ isAnimating' = TRUE
          /\ \E k \in Draws :
               LET exclude == usedStartupIds
                   newPrefetchedSecondNextCandidate ==
                     GetRandomStartupMem(startups, exclude, k)
                   newUsedIdsForNextRound ==
                     SetAdd(exclude, newPrefetchedSecondNextCandidate.id)
               IN tasks' = Append(tasks,
                    Closure("shift", guess, newUsedIdsForNextRound,
                            newPrefetchedSecondNextCandidate))
          /\ UNCHANGED timers
     ELSE /\ timers' = Append(timers,
               Closure("over", guess, usedStartupIds, NoStartup))
          /\ UNCHANGED <<score, isAnimating, tasks>>
  /\ UNCHANGED <<env, data, slots, usedStartupIds, gameOver, initsInFlight,
                 restarts, recycled>>

HandleGuessMem(guess) ==
  /\ variant = "mem"
  /\ CanGuess
  /\ leftStartup # NoStartup /\ rightStartup # NoStartup
  /\ prefetchedNext # NoStartup /\ prefetchedSecondNext # NoStartup
  /\ ~isAnimating
  /\ lastGuess' = guess
  /\ showRightValuation' = TRUE
  /\ IF IsCorrectRounded(guess, leftStartup, rightStartup)
     THEN /\ score' = score + 1
          /\ isAnimating' = TRUE
          /\ \E k \in Draws :
               LET exclude == SetDelete(usedStartupIds, leftStartup.id)
                   newPrefetchedSecondNextCandidate ==
                     GetRandomStartupMem(startups, exclude, k)
                   newUsedIdsForNextRound ==
                     SetAdd(exclude, newPrefetchedSecondNextCandidate.id)
               IN tasks' = Append(tasks,
                    Closure("shift", guess, newUsedIdsForNextRound,
                            newPrefetchedSecondNextCandidate))
          /\ UNCHANGED timers
     ELSE /\ timers' = Append(timers,
               Closure("over", guess, usedStartupIds, NoStartup))
          /\ UNCHANGED <<score, isAnimating, tasks>>
  /\ UNCHANGED <<env, data, slots, usedStartupIds, gameOver, initsInFlight,
                 restarts, recycled>>

\* preloadImage of the candidate settles: resolved, the try block arms the
\* 1500 ms timer; rejected, the catch block arms a timer with the same
\* callback
PreloadSettleMem ==
  /\ variant = "mem"
  /\ \E i \in 1..Len(tasks), rejected \in BOOLEAN :
       /\ IF rejected
          THEN /\ preloadOutcome' = "guess rejected"
               /\ timers' = Append(timers, tasks[i])
          ELSE /\ preloadOutcome' = "resolved"
               /\ timers' = Append(timers, tasks[i])
       /\ tasks' = [j \in 1..(Len(tasks) - 1) |->
                      IF j < i THEN tasks[j] ELSE tasks[j + 1]]
  /\ UNCHANGED <<config, data, round, initsInFlight, restarts, recycled>>

\* faulty variant: the left item stays where it is
TimerShiftKeepsLeft ==
  /\ variant \in {"mem", "rnd"}
  /\ timers # <<>>
  /\ Head(timers).kind = "shift"
  /\ LET t == Head(timers)
     IN /\ leftStartup' = t.left
        /\ rightStartup' = t.next
        /\ prefetchedNext' = t.second
        /\ prefetchedSecondNext' = t.cand
        /\ usedStartupIds' = t.used
  /\ showRightValuation' = FALSE
  /\ isAnimating' = FALSE
  /\ lastGuess' = "null"
  /\ timers' = Tail(timers)
  /\ UNCHANGED <<env, data, score, gameOver, initsInFlight, tasks, restarts, recycled>>

\* faulty variant: the emptied prefetch slot is not refilled
TimerShiftNoRefill ==
  /\ variant \in {"mem", "rnd"}
  /\ timers # <<>>
  /\ Head(timers).kind = "shift"
  /\ LET t == Head(timers)
     IN /\ leftStartup' = t.right
        /\ rightStartup' = t.next
        /\ prefetchedNext' = t.second
        /\ prefetchedSecondNext' = t.second
        /\ usedStartupIds' = t.used
  /\ showRightValuation' = FALSE
  /\ isAnimating' = FALSE
  /\ lastGuess' = "null"
  /\ timers' = Tail(timers)
  /\ UNCHANGED <<env, data, score, gameOver, initsInFlight, tasks, restarts, recycled>>

\* the callback of a correct guess in the four-slot pages
TimerShift ==
  /\ variant \in {"mem", "rnd"}
  /\ timers # <<>>
  /\ Head(timers).kind = "shift"
  /\ LET t == Head(timers)
     IN /\ leftStartup' = t.right
        /\ rightStartup' = t.next
        /\ prefetchedNext' = t.second
        /\ prefetchedSecondNext' = t.cand
        /\ usedStartupIds' = t.used
  /\ showRightValuation' = FALSE
  /\ isAnimating' = FALSE
  /\ lastGuess' = "null"
  /\ timers' = Tail(timers)
  /\ UNCHANGED <<env, data, score, gameOver, initsInFlight, tasks, restarts, recycled>>

PlayAgainMem ==
  /\ variant = "mem"
  /\ CanPlayAgain
  /\ leftStartup # NoStartup /\ rightStartup # NoStartup
  /\ prefetchedNext # NoStartup /\ prefetchedSecondNext # NoStartup
  /\ InitializeInvokeMem(startups)
  /\ restarts' = restarts + 1
  /\ UNCHANGED <<env, data, round, tasks, timers, recycled>>

\* --------------------------------------------- random-offset page (part_003)
\* The while loop of getRandomStartup from the given attempt count on: every
\* request may fail; the loop ends at an attempt a < MAX_ATTEMPTS with a row
\* that is returned and not excluded, or after MAX_ATTEMPTS unsuccessful
\* attempts, and then a fallback record is recycled.  The select has no
\* order clause, so the row found at the drawn offset is any row of the
\* table.
RandomOffsetSearch(excludeIds, attempts) ==
  LET offsets == 1 .. totalStartupsCount
      rows == {RemoteRow(o) : o \in offsets}
      found == {r \in rows : r.id \notin Range(excludeIds)}
  IN {[item |-> r, recycled |-> FALSE] :
        r \in found, a \in attempts .. (MAX_ATTEMPTS - 1)}
       \cup {[item |-> fallbackStartups[RandomIndex(Len(fallbackStartups), k)],
               recycled |-> TRUE] : k \in Draws}

\* faulty variant: the loop runs while attempts <= MAX_ATTEMPTS
RECURSIVE RandomOffsetRequestsOneMore(_, _)
RandomOffsetRequestsOneMore(excludeIds, attempts) ==
  IF attempts > MAX_ATTEMPTS
  THEN {attempts}
  ELSE LET offsets == 1 .. totalStartupsCount
           rows == {RemoteRow(o) : o \in offsets}
           found == {r \in rows : r.id \notin Range(excludeIds)}
       IN (IF found # {} THEN {attempts + 1} ELSE {})
            \cup RandomOffsetRequestsOneMore(excludeIds, attempts + 1)

\* The same loop, counting: the numbers of single-record requests it can
\* have sent when it ends.  Every iteration sends one request; attempts
\* counts the iterations that did not end the loop.
RECURSIVE RandomOffsetRequests(_, _)
RandomOffsetRequests(excludeIds, attempts) ==
  IF attempts >= MAX_ATTEMPTS
  THEN {attempts}
  ELSE LET offsets == 1 .. totalStartupsCount
           rows == {RemoteRow(o) : o \in offsets}
           found == {r \in rows : r.id \notin Range(excludeIds)}
       IN (IF found # {} THEN {attempts + 1} ELSE {})
            \cup RandomOffsetRequests(excludeIds, attempts + 1)

\* the results getRandomStartup can resolve to
GetRandomStartupRnd(excludeIds) ==
  IF ~tryGetSupabase \/ usingFallbackData
  THEN LET available == SelectSeq(fallbackStartups,
                          LAMBDA s : s.id \notin Range(excludeIds))
       IN {[item |-> IF Len(available) > 0
                     THEN available[RandomIndex(Len(available), k)]
                     ELSE fallbackStartups[RandomIndex(Len(fallbackStartups), k)],
            recycled |-> Len(available) = 0] : k \in Draws}
  ELSE IF totalStartupsCount = 0
       THEN {[item |-> ErrorStartup, recycled |-> TRUE]}
       ELSE RandomOffsetSearch(excludeIds, 0)

\* initializeGame up to its first await
InitializeInvokeRnd ==
  /\ loading' = TRUE
  /\ initsInFlight' = initsInFlight + 1

\* fetchTotalStartupsCount up to its first await, with the effect on
\* [totalStartupsCount, usingFallbackData, leftStartup, loading]
FetchTotalStartupsCount ==
  /\ variant = "rnd"
  /\ fetchpc = "idle"
  /\ IF ~tryGetSupabase
     THEN /\ totalStartupsCount' = Len(fallbackStartups)
          /\ usingFallbackData' = TRUE
          /\ fetchpc' = "done"
          /\ IF leftStartup = NoStartup
             THEN InitializeInvokeRnd
             ELSE loading' = FALSE /\ UNCHANGED initsInFlight
     ELSE /\ fetchpc' = "pending"
          /\ usingFallbackData' = FALSE
          /\ loading' = TRUE
          /\ UNCHANGED <<totalStartupsCount, initsInFlight>>
  /\ UNCHANGED <<env, startups, round, tasks, timers, restarts, recycled>>

\* the count query resolves
CountSettle(failed, nRows) ==
  /\ variant = "rnd"
  /\ fetchpc = "pending"
  /\ fetchpc' = "done"
  /\ IF failed \/ nRows = 0
     THEN /\ totalStartupsCount' = Len(fallbackStartups)
          /\ usingFallbackData' = TRUE
     ELSE /\ totalStartupsCount' = nRows
          /\ UNCHANGED usingFallbackData
  /\ IF (totalStartupsCount' > 0 \/ usingFallbackData')
          /\ leftStartup = NoStartup
     THEN InitializeInvokeRnd
     ELSE loading' = FALSE /\ UNCHANGED initsInFlight
  /\ UNCHANGED <<env, startups, round, tasks, timers, restarts, recycled>>

\* the four awaited selections resolve one after the other, then the commit
InitializeCommitRnd ==
  /\ variant = "rnd"
  /\ initsInFlight > 0
  /\ initsInFlight' = initsInFlight - 1
  /\ \E r1 \in GetRandomStartupRnd(<<>>) :
       LET used1 == SetAdd(<<>>, r1.item.id)
       IN \E r2 \in GetRandomStartupRnd(used1) :
            LET used2 == SetAdd(used1, r2.item.id)
            IN \E r3 \in GetRandomStartupRnd(used2) :
                 LET used3 == SetAdd(used2, r3.item.id)
                 IN \E r4 \in GetRandomStartupRnd(used3) :
                      /\ CommitRound(r1.item, r2.item, r3.item, r4.item,
                                     SetAdd(used3, r4.item.id))
                      /\ recycled' = (r1.recycled \/ r2.recycled
                                      \/ r3.recycled \/ r4.recycled)
  /\ loading' = FALSE
  /\ UNCHANGED <<env, fetchpc, startups, totalStartupsCount,
                 usingFallbackData, tasks, timers, restarts>>

HandleGuessRnd(guess) ==
  /\ variant = "rnd"
  /\ CanGuess
  /\ leftStartup # NoStartup /\ rightStartup # NoStartup
  /\ prefetchedNext # NoStartup /\ prefetchedSecondNext # NoStartup
  /\ ~isAnimating
  /\ lastGuess' = guess
  /\ showRightValuation' = TRUE
  /\ IF IsCorrectRounded(guess, leftStartup, rightStartup)
     THEN /\ score' = score + 1
          /\ isAnimating' = TRUE
          /\ LET newUsedIdsForNextFetch ==
                   SetAdd(SetAdd(SetAdd(<<>>, rightStartup.id),
                                 prefetchedNext.id), prefetchedSecondNext.id)
             IN tasks' = Append(tasks,
                  Closure("shift", guess, newUsedIdsForNextFetch, NoStartup))
          /\ UNCHANGED timers
     ELSE /\ timers' = Append(timers,
               Closure("over", guess, usedStartupIds, NoStartup))
          /\ UNCHANGED <<score, isAnimating, tasks>>
  /\ UNCHANGED <<env, data, slots, usedStartupIds, gameOver, initsInFlight,
                 restarts, recycled>>

\* the awaited getRandomStartup of a correct guess resolves and the 300 ms
\* timer is armed
CandidateSettleRnd ==
  /\ variant = "rnd"
  /\ tasks # <<>>
  /\ LET t == Head(tasks)
     IN \E r \in GetRandomStartupRnd(t.used) :
          /\ timers' = Append(timers,
               [t EXCEPT !.cand = r.item,
                         !.used = SetAdd(t.used, r.item.id)])
          /\ recycled' = (recycled \/ r.recycled)
  /\ tasks' = Tail(tasks)
  /\ UNCHANGED <<env, data, round, initsInFlight, restarts>>

PlayAgainRnd ==
  /\ variant = "rnd"
  /\ CanPlayAgain
  /\ leftStartup # NoStartup /\ rightStartup # NoStartup
  /\ prefetchedNext # NoStartup /\ prefetchedSecondNext # NoStartup
  /\ InitializeInvokeRnd
  /\ restarts' = restarts + 1
  /\ UNCHANGED <<env, fetchpc, startups, totalStartupsCount,
                 usingFallbackData, round, tasks, timers, recycled>>

Next ==
  \/ FetchTotalStartupsCount
  \/ \E failed \in BOOLEAN, nRows \in 0..MaxRows :
       CountSettle(failed, nRows)
  \/ InitializeCommitRnd
  \/ \E guess \in Guesses : HandleGuessRnd(guess)
  \/ CandidateSettleRnd
  \/ PlayAgainRnd
  \/ FetchStartupsRaw
  \/ \E failed \in BOOLEAN, nRows \in 0..MaxRows :
       FetchSettleRaw(failed, nRows)
  \/ \E guess \in Guesses : HandleGuessRaw(guess)
  \/ TimerShiftRaw
  \/ TimerGameOver
  \/ PlayAgainRaw
  \/ FetchStartupsMem
  \/ \E failed \in BOOLEAN, nRows \in 0..MaxRows :
       FetchSettleMem(failed, nRows)
  \/ InitializeCommitMem
  \/ \E guess \in Guesses : HandleGuessMem(guess)
  \/ PreloadSettleMem
  \/ TimerShift
  \/ PlayAgainMem

Spec == Init /\ [][Next]_vars

\* The steps that do not wait for the player: effects on mount, requests
\* and preloads that settle, timers that fire.
Internal ==
  \/ FetchTotalStartupsCount
  \/ \E failed \in BOOLEAN, nRows \in 0..MaxRows :
       CountSettle(failed, nRows)
  \/ InitializeCommitRnd
  \/ CandidateSettleRnd
  \/ FetchStartupsRaw
  \/ \E failed \in BOOLEAN, nRows \in 0..MaxRows :
       FetchSettleRaw(failed, nRows)
  \/ TimerShiftRaw
  \/ TimerGameOver
  \/ FetchStartupsMem
  \/ \E failed \in BOOLEAN, nRows \in 0..MaxRows :
       FetchSettleMem(failed, nRows)
  \/ InitializeCommitMem
  \/ PreloadSettleMem
  \/ TimerShift

\* pending timers fire and pending requests and preloads settle
FairSpec == Spec /\ WF_vars(Internal)

\* ------------------------------------------------------------ vocabulary
Initialized2 == leftStartup # NoStartup /\ rightStartup # NoStartup

Initialized4 ==
  /\ Initialized2
  /\ prefetchedNext # NoStartup
  /\ prefetchedSecondNext # NoStartup

SlotIds ==
  {leftStartup.id, rightStartup.id, prefetchedNext.id, prefetchedSecondNext.id}

Ready ==
  /\ ~loading
  /\ IF variant = "raw" THEN Initialized2 ELSE Initialized4
  /\ ~gameOver
  /\ ~showRightValuation
  /\ ~isAnimating

\* a step in which handleGuess judges a guess
GuessStep == showRightValuation' /\ ~showRightValuation

\* the closure of the call of handleGuess made in this step
NewClosure ==
  IF Len(tasks') > Len(tasks) THEN tasks'[Len(tasks')]
  ELSE timers'[Len(timers')]

\* a step in which a shift timer fires
ShiftStep ==
  /\ timers # <<>>
  /\ Head(timers).kind = "shift"
  /\ timers' = Tail(timers)

\* a step in which initializeGame runs to its end
InitCommitStep ==
  IF variant = "raw"
  THEN restarts' # restarts \/ (fetchpc' = "done" /\ fetchpc # "done")
  ELSE initsInFlight' < initsInFlight

NoConfig == ~envUrl \/ ~envKey

InFallback(s) == s = NoStartup \/ s \in Range(fallbackStartups)

\* a call of handleGuess that judged the guess correct / incorrect has not
\* run to its end
PendingShift ==
  \/ \E i \in 1..Len(tasks) : tasks[i].kind = "shift"
  \/ \E i \in 1..Len(timers) : timers[i].kind = "shift"

PendingOver == \E i \in 1..Len(timers) : timers[i].kind = "over"

\* the number of items getRandomStartup can pick from
PoolSize ==
  IF variant = "rnd"
  THEN IF ~tryGetSupabase \/ usingFallbackData
       THEN Len(fallbackStartups)
       ELSE totalStartupsCount
  ELSE Len(startups)

\* nothing is awaiting and no timer is armed: only the player can act
Quiescent ==
  /\ fetchpc = "done"
  /\ initsInFlight = 0
  /\ tasks = <<>>
  /\ timers = <<>>

\* ------------------------------------------- sessions without configuration
\* tryGetSupabase returns no client, so no request is ever sent and the
\* handlers of a response never run
NoConfigInit == Init /\ NoConfig

\* the steps that do not wait for the player: effects on mount, promises
\* that settle, timers that fire
NoConfigInternal ==
  \/ FetchTotalStartupsCount
  \/ InitializeCommitRnd
  \/ CandidateSettleRnd
  \/ FetchStartupsRaw
  \/ TimerShiftRaw
  \/ TimerGameOver
  \/ FetchStartupsMem
  \/ InitializeCommitMem
  \/ PreloadSettleMem
  \/ TimerShift

NoConfigNext ==
  \/ FetchTotalStartupsCount
  \/ InitializeCommitRnd
  \/ \E guess \in Guesses : HandleGuessRnd(guess)
  \/ CandidateSettleRnd
  \/ PlayAgainRnd
  \/ FetchStartupsRaw
  \/ \E guess \in Guesses : HandleGuessRaw(guess)
  \/ TimerShiftRaw
  \/ TimerGameOver
  \/ PlayAgainRaw
  \/ FetchStartupsMem
  \/ InitializeCommitMem
  \/ \E guess \in Guesses : HandleGuessMem(guess)
  \/ PreloadSettleMem
  \/ TimerShift
  \/ PlayAgainMem

NoConfigSpec ==
  NoConfigInit /\ [][NoConfigNext]_vars /\ WF_vars(NoConfigInternal)

\* v / unit rounded to the nearest whole number, halves upwards
NearestWhole(v, unit) ==
  CHOOSE n \in 0 .. ((v \div unit) + 1) :
    /\ (2 * n * unit) - unit <= 2 * v
    /\ 2 * v < (2 * n * unit) + unit

DisplayNumber(v) ==
  IF v >= Billion THEN NearestWhole(v, Billion) ELSE NearestWhole(v, Million)

\* ------------------------------------------------------------------ claims

\* C1: raw page, pool of at least two items: whenever both are set, the
\* left and right items have different ids.
C1_RawLeftRightDistinct ==
  (variant = "raw" /\ Len(startups) >= 2 /\ Initialized2)
    => leftStartup.id # rightStartup.id

\* C2: in-memory prefetch page, pool of at least four items: in every
\* initialized state the four slots hold pairwise different ids.
C2_MemSlotsDistinct ==
  (variant = "mem" /\ Len(startups) >= 4 /\ Initialized4)
    => Cardinality(SlotIds) = 4

C2_Witness ==
  /\ variant = "mem"
  /\ Len(startups) >= 4
  /\ Initialized4
  /\ restarts >= 1
  /\ score >= 1
  /\ ~showRightValuation

\* C3: random-offset page, remote table of at least four rows: in
\* every initialized state the four slots hold pairwise different ids.
C3_RndSlotsDistinct ==
  (variant = "rnd" /\ Initialized4
     /\ (usingFallbackData \/ totalStartupsCount >= 4))
    => Cardinality(SlotIds) = 4

\* C4: raw page: a guess is judged correct iff it is "higher" and the right
\* valuation is above the left one, or "lower" and it is below; 140 B
\* against 180 B makes "lower" correct and the score 1; equal valuations
\* make both guesses incorrect.
C4_RawVerdict ==
  [][(variant = "raw" /\ GuessStep) =>
       /\ (score' = score + 1) <=>
            \/ lastGuess' = "higher"
                 /\ rightStartup.valuation > leftStartup.valuation
            \/ lastGuess' = "lower"
                 /\ rightStartup.valuation < leftStartup.valuation
       /\ (leftStartup.valuation = 1800000 /\ rightStartup.valuation = 1400000
             /\ lastGuess' = "lower" /\ score = 0) => score' = 1
       /\ rightStartup.valuation = leftStartup.valuation => score' = score
    ]_vars

C4_Witness ==
  /\ variant = "raw"
  /\ leftStartup.valuation = 1800000
  /\ rightStartup.valuation = 1400000
  /\ lastGuess = "lower"
  /\ score = 1

\* C5: rounded pages: a guess is judged correct iff the display numbers are
\* equal, or it is "higher" and the right display number is above the left
\* one, or "lower" and it is below.
C5_RoundedVerdict ==
  [][(variant \in {"mem", "rnd"} /\ GuessStep) =>
       LET l == DisplayNumber(leftStartup.valuation)
           r == DisplayNumber(rightStartup.valuation)
       IN (score' = score + 1) <=>
            \/ r = l
            \/ lastGuess' = "higher" /\ r > l
            \/ lastGuess' = "lower" /\ r < l
    ]_vars

\* 10.4 B on the left, 10.49 B on the right, "lower" judged correct
C5_Witness ==
  /\ variant \in {"mem", "rnd"}
  /\ leftStartup.valuation = 104000
  /\ rightStartup.valuation = 104900
  /\ lastGuess = "lower"
  /\ isAnimating
  /\ score = 1

\* C6: the call of handleGuess keeps the right item of the moment of the
\* guess, and the shift makes exactly that item the left one.
C6_ShiftKeepsRight ==
  [][/\ (GuessStep /\ score' = score + 1) => NewClosure.right = rightStartup
     /\ ShiftStep => leftStartup' = Head(timers).right
    ]_vars

C6_Witness ==
  /\ score >= 1
  /\ ~showRightValuation
  /\ ~gameOver
  /\ tasks = <<>>
  /\ timers = <<>>
  /\ restarts >= 1

\* C7: score goes up by exactly one on a correct guess, is left alone by an
\* incorrect guess and by the game-over timer, and is otherwise changed only
\* by a commit of initializeGame, which sets it to 0.
C7_Score ==
  [][/\ GuessStep =>
          \/ score' = score + 1 /\ isAnimating'
          \/ score' = score /\ NewClosure.kind = "over"
     /\ (gameOver' /\ ~gameOver) => score' = score
     /\ (InitCommitStep /\ leftStartup' # NoStartup) => score' = 0
     /\ (~GuessStep /\ ~InitCommitStep) => score' = score
    ]_vars

C7_Witness ==
  /\ score >= 2
  /\ restarts >= 1

\* C8: the game-over timer leaves left, right, score and lastGuess as they
\* were when the guess was judged, and once gameOver is set they change only
\* by a commit of initializeGame.
C8_GameOverRetains ==
  [][/\ (gameOver' /\ ~gameOver) =>
          /\ timers # <<>>
          /\ leftStartup' = Head(timers).left
          /\ rightStartup' = Head(timers).right
          /\ score' = Head(timers).score
          /\ lastGuess' = Head(timers).guess
     /\ (gameOver /\ ~InitCommitStep) =>
          UNCHANGED <<leftStartup, rightStartup, score, lastGuess, gameOver>>
    ]_vars

\* C9: without configuration the session reaches Ready, only fallback
\* records are ever in a slot, and the demo flag is set from the end of the
\* fetch on.
C9_NoConfigDemo ==
  /\ [](NoConfig =>
          /\ InFallback(leftStartup)
          /\ InFallback(rightStartup)
          /\ InFallback(prefetchedNext)
          /\ InFallback(prefetchedSecondNext))
  /\ []((NoConfig /\ (fetchpc = "done" \/ ~loading)) => usingFallbackData)
  /\ ((NoConfig /\ fetchpc = "idle") ~> (NoConfig /\ Ready))

C9_Witness ==
  /\ NoConfig
  /\ Ready
  /\ usingFallbackData
  /\ leftStartup \in Range(fallbackStartups)
  /\ score >= 1

\* C10: once the fetch is over, the demo flag is set iff the fallback
\* records are the pool in use.
C10_FallbackFlag ==
  (fetchpc = "done") =>
    (usingFallbackData <=>
       IF variant = "rnd"
       THEN ~tryGetSupabase \/ usingFallbackData
       ELSE startups = fallbackStartups)

\* C11: once the fetch is over and nothing is pending any more, loading is
\* cleared, and with a pool of at least two items the session is Ready (or
\* has been played to its game-over screen).
C11_SettlesReady ==
  Quiescent =>
    /\ ~loading
    /\ PoolSize >= 2 => (Ready \/ gameOver)

\* C12: random-offset page with a client: for the exclusion sets in use and
\* for the one that excludes every row, getRandomStartup sends between 1
\* and MAX_ATTEMPTS requests and always has a result; a result of the loop
\* is a row that is not excluded, and the result after MAX_ATTEMPTS
\* unsuccessful attempts, which is always possible, is a fallback record.
C12_BoundedSearch ==
  (variant = "rnd" /\ fetchpc = "done" /\ tryGetSupabase /\ ~usingFallbackData)
    => \A ex \in {<<>>, usedStartupIds, [i \in 1..totalStartupsCount |-> i]} :
         LET results == GetRandomStartupRnd(ex)
             requests == RandomOffsetRequests(ex, 0)
         IN /\ results # {}
            /\ \A r \in results :
                 /\ r.item # NoStartup
                 /\ r.recycled => r.item \in Range(fallbackStartups)
                 /\ ~r.recycled =>
                      /\ r.item \in Range(RemoteRows(totalStartupsCount))
                      /\ r.item.id \notin Range(ex)
            /\ \E r \in results : r.recycled
            /\ \A n \in requests : 1 <= n /\ n <= MAX_ATTEMPTS
            /\ MAX_ATTEMPTS \in requests

\* a recycled record is in play and the game goes on
C12_Witness ==
  /\ variant = "rnd"
  /\ tryGetSupabase
  /\ ~usingFallbackData
  /\ totalStartupsCount >= 1
  /\ recycled
  /\ Ready

\* C13: raw and in-memory prefetch pages: when every item of the pool is
\* excluded, getRandomStartup returns an item of the pool, drawn by index
\* from the whole pool.
C13_ExhaustedWholePool ==
  (variant \in {"raw", "mem"} /\ Len(startups) >= 2
     /\ Ids(startups) \subseteq Range(usedStartupIds))
    => LET results ==
             {IF variant = "raw"
              THEN GetRandomStartupRaw(startups, usedStartupIds, k)
              ELSE GetRandomStartupMem(startups, usedStartupIds, k) : k \in Draws}
       IN /\ results \subseteq Range(startups)
          /\ results = {startups[RandomIndex(Len(startups), k)] : k \in Draws}

\* C14: with timers firing and requests and preloads settling, a guess
\* judged correct leads back to Ready, the shift leaving isAnimating,
\* showRightValuation and gameOver false, lastGuess null and the right item
\* of the guess on the left; a guess judged incorrect leads to gameOver.
C14_GuessResolves ==
  /\ [][ShiftStep =>
          /\ ~isAnimating'
          /\ ~showRightValuation'
          /\ lastGuess' = "null"
          /\ ~gameOver'
          /\ leftStartup' = Head(timers).right]_vars
  /\ PendingShift ~> Ready
  /\ PendingOver ~> gameOver

\* the items getRandomStartup can return for an empty exclusion set
FirstPicks ==
  CASE variant = "raw" ->
         {GetRandomStartupRaw(startups, <<>>, k) : k \in Draws}
    [] variant = "mem" ->
         {GetRandomStartupMem(startups, <<>>, k) : k \in Draws}
    [] variant = "rnd" ->
         {r.item : r \in GetRandomStartupRnd(<<>>)}

\* C15: a commit of initializeGame sets score to 0, clears gameOver,
\* showRightValuation and isAnimating and sets lastGuess to null; the item
\* selected first, with nothing excluded, is on the left, the second on the
\* right and, in the four-slot pages, the third and fourth in the prefetch
\* slots.
C15_InitializeCommit ==
  [][(InitCommitStep /\ leftStartup' # NoStartup) =>
       /\ score' = 0
       /\ ~gameOver'
       /\ lastGuess' = "null"
       /\ ~showRightValuation'
       /\ ~isAnimating'
       /\ leftStartup' \in FirstPicks'
       /\ rightStartup' # NoStartup
       /\ IF variant = "raw"
          THEN /\ prefetchedNext' = NoStartup
               /\ prefetchedSecondNext' = NoStartup
               /\ usedStartupIds' =
                    SetAdd(SetAdd(<<>>, leftStartup'.id), rightStartup'.id)
          ELSE /\ prefetchedNext' # NoStartup
               /\ prefetchedSecondNext' # NoStartup
               /\ usedStartupIds' =
                    SetAdd(SetAdd(SetAdd(SetAdd(<<>>, leftStartup'.id),
                                         rightStartup'.id),
                                  prefetchedNext'.id),
                           prefetchedSecondNext'.id)
    ]_vars

\* a restart has committed a new game
C15_Witness ==
  /\ restarts >= 1
  /\ Initialized2
  /\ ~gameOver
  /\ score = 0
  /\ lastGuess = "null"
  /\ initsInFlight = 0

\* C16: four-slot pages: once a game is in play (the slots are set and the
\* game is not over) any commit of initializeGame comes from a call that a
\* later call has superseded, and it changes neither the items nor the
\* score.
C16_SupersededDiscarded ==
  [][(variant \in {"mem", "rnd"} /\ InitCommitStep
        /\ Initialized4 /\ ~gameOver)
       => UNCHANGED <<slots, score>>
    ]_vars

\* the slots are set together: both or none in the raw page, all four or
\* none in the four-slot pages
SlotsAllOrNone ==
  IF variant = "raw"
  THEN /\ (leftStartup = NoStartup) <=> (rightStartup = NoStartup)
       /\ prefetchedNext = NoStartup
       /\ prefetchedSecondNext = NoStartup
  ELSE \/ Initialized4
       \/ /\ leftStartup = NoStartup
          /\ rightStartup = NoStartup
          /\ prefetchedNext = NoStartup
          /\ prefetchedSecondNext = NoStartup

\* the shift, the refill and the update of the exclusion set, made in one
\* step from what the call of handleGuess holds
ShiftTogether ==
  /\ ShiftStep
  /\ leftStartup' = Head(timers).right
  /\ IF variant = "raw"
     THEN /\ rightStartup' # NoStartup
          /\ usedStartupIds' = SetAdd(usedStartupIds, rightStartup'.id)
     ELSE /\ rightStartup' = Head(timers).next
          /\ prefetchedNext' = Head(timers).second
          /\ prefetchedSecondNext' = Head(timers).cand
          /\ Head(timers).cand # NoStartup
          /\ usedStartupIds' = Head(timers).used

\* C17 as stated: the slots are set together, and outside initializeGame
\* the score, the slots and the exclusion set change only together, in the
\* one step of the shift.
C17_NoPartialUpdate ==
  /\ []SlotsAllOrNone
  /\ [][(~InitCommitStep
           /\ (score' # score \/ slots' # slots
                 \/ usedStartupIds' # usedStartupIds))
          => (ShiftTogether /\ score' = score + 1)
       ]_vars

\* C17 amended: the slots are set together; outside initializeGame the
\* slots and the exclusion set change only together, in the one step of the
\* shift, and the score changes only in the step that judges the guess,
\* which leaves the slots and the exclusion set alone.
C17_ShiftInOneStep ==
  /\ []SlotsAllOrNone
  /\ [][~InitCommitStep =>
          /\ (slots' # slots \/ usedStartupIds' # usedStartupIds)
               => (ShiftTogether /\ score' = score)
          /\ score' # score
               => /\ GuessStep
                  /\ score' = score + 1
                  /\ UNCHANGED <<slots, usedStartupIds>>
          /\ ShiftStep => ShiftTogether
       ]_vars

\* the score of a correct guess is shown while its shift is still pending
C17_Witness ==
  /\ score >= 1
  /\ showRightValuation
  /\ isAnimating
  /\ PendingShift
  /\ Initialized2

\* the ids the pool of the page offers
PoolIds ==
  IF variant = "rnd"
  THEN IF ~tryGetSupabase \/ usingFallbackData
       THEN Ids(fallbackStartups)
       ELSE 1 .. totalStartupsCount
  ELSE Ids(startups)

\* the calls of handleGuess that have selected their replacement
Replacements ==
  {c \in Range(tasks) \cup Range(timers) :
     c.kind = "shift" /\ c.cand # NoStartup}

\* C18: four-slot pages: when the pool has an item outside the four items
\* in play at the moment of the guess, the replacement selected for a correct
\* guess has none of their ids.
C18_ReplacementIsNew ==
  variant \in {"mem", "rnd"} =>
    \A c \in Replacements :
      LET inPlay == {c.left.id, c.right.id, c.next.id, c.second.id}
      IN (PoolIds \ inPlay # {}) => c.cand.id \notin inPlay

\* the ids of the items in play
InPlayIds ==
  IF variant = "raw" THEN {leftStartup.id, rightStartup.id} ELSE SlotIds

C20_TryGetSupabase ==
  LET result == tryGetSupabaseResult
  IN /\ ~result.threw
     /\ (~envUrl \/ ~envKey \/ createClientThrows)
          => (result.client = "null" /\ result.error # "null")
     /\ (envUrl /\ envKey /\ ~createClientThrows)
          => (result.client # "null" /\ result.error = "null")
     /\ (result.client = "null") <=> (result.error # "null")

\* createClient threw and the page went on with the fallback records
C20_Witness ==
  /\ envUrl
  /\ envKey
  /\ createClientThrows
  /\ fetchpc = "done"
  /\ tryGetSupabaseResult.client = "null"
  /\ Ready

\* ------------------------------------------------- image references
\* The pages hand the image reference of a row to getSupabaseImageUrl when
\* they preload and render it (part_004 lines 129-132, 346, 387).
ImageInit ==
  /\ variant \in {"mem", "rnd"}
  /\ envUrl \in BOOLEAN
  /\ envKey \in BOOLEAN
  /\ createClientThrows \in IF envUrl /\ envKey THEN BOOLEAN ELSE {FALSE}
  /\ imagePath \in ImagePaths
  /\ imageUrl = NotCalled
  /\ fetchpc = "idle"
  /\ startups = <<>>
  /\ totalStartupsCount = 0
  /\ loading = TRUE
  /\ usingFallbackData = FALSE
  /\ leftStartup = NoStartup
  /\ rightStartup = NoStartup
  /\ prefetchedNext = NoStartup
  /\ prefetchedSecondNext = NoStartup
  /\ usedStartupIds = <<>>
  /\ score = 0
  /\ gameOver = FALSE
  /\ showRightValuation = FALSE
  /\ isAnimating = FALSE
  /\ lastGuess = "null"
  /\ initsInFlight = 0
  /\ tasks = <<>>
  /\ timers = <<>>
  /\ restarts = 0
  /\ preloadOutcome = "none"
  /\ recycled = FALSE

\* one call of getSupabaseImageUrl
GetSupabaseImageUrlCall ==
  /\ imageUrl = NotCalled
  /\ imageUrl' = getSupabaseImageUrl(imagePath)
  /\ UNCHANGED <<variant, envUrl, envKey, createClientThrows, imagePath,
                 preloadOutcome, data, round, async, restarts, recycled>>

ImageNext == GetSupabaseImageUrlCall

ImageSpec == ImageInit /\ [][ImageNext]_vars

\* a fully-qualified URL: "http://" or "https://" followed by something
IsFullyQualifiedUrl(s) ==
  \E scheme \in {HttpPrefix, HttpPrefix \o <<"s">>} :
    /\ startsWith(s, scheme \o <<":", "/", "/">>)
    /\ Len(s) > Len(scheme) + 3

\* C21: getSupabaseImageUrl returns the placeholder for a null or empty
\* reference, a fully-qualified URL unchanged, the placeholder for any other
\* reference when no client is available and the storage public URL
\* otherwise; the result is never empty and the call never throws.
C21_ImageUrl ==
  imageUrl # NotCalled =>
    /\ imageUrl # Thrown
    /\ imageUrl # <<>>
    /\ IF imagePath = NullPath \/ imagePath = <<>>
       THEN imageUrl = PlaceholderUrl
       ELSE IF IsFullyQualifiedUrl(imagePath)
            THEN imageUrl = imagePath
            ELSE IF tryGetSupabaseResult.client = "null"
                 THEN imageUrl = PlaceholderUrl
                 ELSE imageUrl = getPublicUrl(imagePath)

\* C22: in the four-slot pages the shift of a correct guess makes the item
\* that was prefetchedNext the right one, the item that was
\* prefetchedSecondNext the prefetchedNext, and the newly selected item the
\* prefetchedSecondNext; apart from a commit of initializeGame nothing else
\* changes the prefetch slots, so no prefetched item is skipped or dropped.
C22_PrefetchOrder ==
  [][/\ (variant \in {"mem", "rnd"} /\ ShiftStep) =>
          /\ rightStartup' = prefetchedNext
          /\ prefetchedNext' = prefetchedSecondNext
          /\ prefetchedSecondNext' = Head(timers).cand
     /\ (variant \in {"mem", "rnd"} /\ ~ShiftStep /\ ~InitCommitStep) =>
          /\ prefetchedNext' = prefetchedNext
          /\ prefetchedSecondNext' = prefetchedSecondNext
    ]_vars

\* the records the candidate pool of the session holds
Pool ==
  IF variant = "rnd"
  THEN IF ~tryGetSupabase \/ usingFallbackData
       THEN Range(fallbackStartups)
       ELSE {RemoteRow(o) : o \in 1 .. totalStartupsCount}
  ELSE Range(startups)

\* the items in the active and prefetch slots
InPlay == {leftStartup, rightStartup, prefetchedNext, prefetchedSecondNext}
            \ {NoStartup}

\* C23: every item in an active or prefetch slot is a record of the pool of
\* the session, the pool is the fallback list in demo mode and never holds
\* remote and fallback records together, and so neither do the slots.
C23_ItemsFromPool ==
  /\ InPlay \subseteq Pool
  /\ usingFallbackData => Pool = Range(fallbackStartups)
  /\ \/ Pool \subseteq Range(fallbackStartups)
     \/ Pool \cap Range(fallbackStartups) = {}

\* a step in which a call of handleGuess gets past its guard: it leaves a
\* closure behind, awaiting or in an armed timer
HandleGuessStep ==
  Len(tasks') + Len(timers') > Len(tasks) + Len(timers)

\* C24: a guess is judged only in Ready: every step that judges a guess,
\* raises the score or sets lastGuess to a direction starts in a Ready state
\* and leaves the items alone, and the page comes back to Ready only by the
\* shift or by a commit of initializeGame, so that one displayed pair is
\* judged at most once.
C24_GuessOnlyInReady ==
  [][/\ (\/ HandleGuessStep
         \/ score' > score
         \/ (lastGuess' # lastGuess /\ lastGuess' \in Guesses))
          => (Ready /\ ~Ready' /\ HandleGuessStep /\ slots' = slots)
     /\ (~Ready /\ Ready') => (ShiftStep \/ InitCommitStep)
    ]_vars

\* a wrong guess was judged and its pair is still revealed: the buttons are
\* disabled although handleGuess itself would not return early
C24_Witness ==
  /\ showRightValuation
  /\ ~isAnimating
  /\ ~gameOver
  /\ lastGuess \in Guesses
  /\ PendingOver

\* C25: raw page, pool of n >= 2 rows: the score of a game never exceeds n;
\* once the pool has run out the selection returns the same item again, so
\* the shift of the n-th correct guess leaves the same item on both sides,
\* and a guess on a pair of one item is judged incorrect in either direction.
C25_RawPoolRunsOut ==
  /\ [](variant = "raw" /\ Len(startups) >= 2 => score <= Len(startups))
  /\ [][(variant = "raw" /\ Len(startups) >= 2) =>
          /\ (ShiftStep /\ score >= Len(startups)) =>
               /\ rightStartup' = rightStartup
               /\ leftStartup' = rightStartup'
          /\ (GuessStep /\ leftStartup = rightStartup) =>
               /\ NewClosure.kind = "over"
               /\ score' = score
      ]_vars

\* a game on a pool of three rows that reached score 3 and ended on a pair
\* of one item
C25_Witness ==
  /\ variant = "raw"
  /\ Len(startups) = 3
  /\ score = 3
  /\ Initialized2
  /\ leftStartup = rightStartup
  /\ gameOver

\* C26: rounded pages: the verdict follows the raw order: with the right
\* valuation above the left one "higher" is judged correct, and with the
\* right valuation below the left one "lower" is judged correct.
C26_VerdictFollowsRawOrder ==
  [][(/\ variant \in {"mem", "rnd"}
      /\ GuessStep
      /\ leftStartup.valuation > 0
      /\ rightStartup.valuation > 0) =>
       /\ (/\ rightStartup.valuation > leftStartup.valuation
           /\ lastGuess' = "higher") => score' = score + 1
       /\ (/\ rightStartup.valuation < leftStartup.valuation
           /\ lastGuess' = "lower") => score' = score + 1
    ]_vars

\* the relation of right to left the game-over screen reports as the actual
\* one: "higher" / "lower" in the raw page; "more" / "less" / "the same" of
\* actualComparisonResult in the rounded pages, given here as "higher" /
\* "lower" / "same"
ActualComparison ==
  IF variant = "raw"
  THEN IF rightStartup.valuation > leftStartup.valuation
       THEN "higher" ELSE "lower"
  ELSE LET l == getRoundedValuationNumber(leftStartup.valuation)
           r == getRoundedValuationNumber(rightStartup.valuation)
       IN IF r > l THEN "higher" ELSE IF r < l THEN "lower" ELSE "same"

Opposite(guess) == IF guess = "higher" THEN "lower" ELSE "higher"

\* C27: on the game-over screen lastGuess is a direction and the relation
\* reported as the actual one is the opposite direction (so never the
\* guessed one, and never "the same").
C27_GameOverMessage ==
  gameOver =>
    /\ lastGuess \in Guesses
    /\ ActualComparison = Opposite(lastGuess)

\* the round a call of initializeGame commits when its preloads resolve,
\* for the draws k1 .. k4 of its four selections (in-memory page)
ResolvedCommit(k1, k2, k3, k4) ==
  LET first == GetRandomStartupMem(startups, <<>>, k1)
      used1 == SetAdd(<<>>, first.id)
      second == GetRandomStartupMem(startups, used1, k2)
      used2 == SetAdd(used1, second.id)
      third == GetRandomStartupMem(startups, used2, k3)
      used3 == SetAdd(used2, third.id)
      fourth == GetRandomStartupMem(startups, used3, k4)
      currentUsedIds == SetAdd(used3, fourth.id)
  IN <<first, second, third, fourth, currentUsedIds, 0, FALSE, FALSE, FALSE,
       "null">>

\* the round the timer of a call of handleGuess commits when the preload of
\* its candidate resolves
ResolvedShift(t) ==
  <<t.right, t.next, t.second, t.cand, t.used, score, gameOver, FALSE, FALSE,
    "null">>

\* C28: in-memory page: whether the awaited preloads resolve or reject, a
\* commit of initializeGame leaves a round that the resolved branch makes,
\* the settling of a guess's preload arms the timer of that guess and
\* leaves the round alone, and the timer commits the round of the resolved
\* branch.
C28_PreloadFailureHarmless ==
  [][variant = "mem" =>
       /\ InitCommitStep =>
            \E k1 \in Draws, k2 \in Draws, k3 \in Draws, k4 \in Draws :
              round' = ResolvedCommit(k1, k2, k3, k4)
       /\ Len(tasks') < Len(tasks) =>
            /\ \E i \in 1..Len(tasks) : timers' = Append(timers, tasks[i])
            /\ round' = round
       /\ ShiftStep => round' = ResolvedShift(Head(timers))
    ]_vars

\* the preload of a guess's candidate was rejected, and the shift of that
\* guess has been made
C28_Witness ==
  /\ variant = "mem"
  /\ preloadOutcome = "guess rejected"
  /\ score >= 1
  /\ Ready
  /\ tasks = <<>>
  /\ timers = <<>>

\* the directions judged correct for a pair in the rounded pages
CorrectDirections(left, right) ==
  {g \in Guesses : IsCorrectRounded(g, left, right)}

\* C29: four-slot pages with the fallback list as the pool: any two
\* different records of the list have exactly one correct direction, and in
\* every Ready state the displayed pair is two different records of the
\* list, so exactly one of "higher" and "lower" is judged correct.
C29_OneCorrectDirection ==
  /\ Len(fallbackStartups) = 10
  /\ \A a \in Range(fallbackStartups), b \in Range(fallbackStartups) :
       a # b => Cardinality(CorrectDirections(a, b)) = 1
  /\ (variant \in {"mem", "rnd"} /\ Pool = Range(fallbackStartups) /\ Ready) =>
       /\ leftStartup \in Range(fallbackStartups)
       /\ rightStartup \in Range(fallbackStartups)
       /\ leftStartup # rightStartup
       /\ Cardinality(CorrectDirections(leftStartup, rightStartup)) = 1

\* a fallback game that was restarted and is Ready again after a correct
\* guess
C29_Witness ==
  /\ variant \in {"mem", "rnd"}
  /\ Pool = Range(fallbackStartups)
  /\ Ready
  /\ score >= 1
  /\ restarts >= 1
  /\ tasks = <<>>
  /\ timers = <<>>
====
